---- MODULE Spec2Model ----
(***************************************************************************)
(* Model of the Twinity Cloud Functions (src/firebase.js): the two HTTP    *)
(* handlers applyAdReward and awardGamePoints over a Firestore document    *)
(* store with optimistic transactions, and the token verifier.             *)
(***************************************************************************)
EXTENDS Integers, Sequences, FiniteSets, TLC

(* ------------------------------ bounds --------------------------------- *)
\* number of HTTP requests of one run
NReq == 2
\* last tick of the wall clock
MaxTick == 1
\* clock ticks per UTC calendar day
TicksPerDay == 1
\* times the store runs a transaction callback before giving up
MaxAttempts == 2

(* ------------------------- program constants --------------------------- *)
AD_REWARD == 100
MAX_POINTS_PER_CALL == 1000
MAX_LEVEL_ALLOWED == 500

Reqs == 1..NReq
Users == {"u1", "u2"}
\* the users who hold a token the identity provider accepts
Callers == {"u1"}
None == "none"

(* ------------------------- JavaScript values --------------------------- *)
\* A number is whole + tenths/10; a string carries its text.
Undef == [t |-> "undefined", whole |-> 0, tenths |-> 0, s |-> ""]
Num(w, f) == [t |-> "number", whole |-> w, tenths |-> f, s |-> ""]
Str(x) == [t |-> "string", whole |-> 0, tenths |-> 0, s |-> x]
NaN == [t |-> "NaN", whole |-> 0, tenths |-> 0, s |-> ""]

\* JavaScript truthiness: undefined, "", 0 and NaN are falsy.
Truthy(v) ==
  CASE v.t = "undefined" -> FALSE
    [] v.t = "NaN" -> FALSE
    [] v.t = "string" -> v.s # ""
    [] v.t = "number" -> ~(v.whole = 0 /\ v.tenths = 0)

\* The numeric strings of the model and their values.
NumericStrings == [s \in {"7"} |-> Num(7, 0)]

\* ToNumber, as the relational operators and isNaN apply it.
ToNumber(v) ==
  CASE v.t = "number" -> v
    [] v.t = "NaN" -> NaN
    [] v.t = "undefined" -> NaN
    [] v.t = "string" ->
         IF v.s = "" THEN Num(0, 0)
         ELSE IF v.s \in DOMAIN NumericStrings THEN NumericStrings[v.s]
         ELSE NaN

\* Number.isInteger: no coercion, a number without fraction.
NumberIsInteger(v) == v.t = "number" /\ v.tenths = 0

\* global isNaN(v): coerces, then tests.
IsNaN(v) == ToNumber(v).t = "NaN"

\* v < n and v > n for an integer n; any comparison with NaN is false.
\* A negative number is held as whole < 0 with tenths = 0.
LessThan(v, n) == ToNumber(v).t = "number" /\ ToNumber(v).whole < n

LessOrEqual(v, n) ==
  /\ ToNumber(v).t = "number"
  /\ \/ ToNumber(v).whole < n
     \/ ToNumber(v).whole = n /\ ToNumber(v).tenths = 0

GreaterThan(v, n) ==
  /\ ToNumber(v).t = "number"
  /\ \/ ToNumber(v).whole > n
     \/ ToNumber(v).whole = n /\ ToNumber(v).tenths > 0

(* ------------------------------ inputs --------------------------------- *)
\* Authorization headers: absent, another scheme, Bearer with a token.
NoHeader == [scheme |-> "", token |-> ""]
Bearer(tok) == [scheme |-> "Bearer ", token |-> tok]
ValidTokens == {"tok-" \o u : u \in Callers}
\* a token that names u2 and fails the signature check
Forged == "forged-u2"
AuthHeaders ==
  {NoHeader, [scheme |-> "Basic ", token |-> "tok-u1"], Bearer(Forged)}
    \cup {Bearer(tok) : tok \in ValidTokens}

\* auth.startsWith("Bearer ")
StartsWithBearer(hdr) == hdr.scheme = "Bearer "

\* auth.split("Bearer ")[1]
IdToken(hdr) == IF hdr.scheme = "Bearer " THEN hdr.token ELSE ""

\* decoded.uid: the subject a token names.
TokenSubject ==
  [tok \in ValidTokens \cup {Forged} |->
     IF tok = Forged THEN "u2" ELSE CHOOSE u \in Callers : tok = "tok-" \o u]

\* admin.auth().verifyIdToken(idToken) resolves, rather than throws
\* A verification that takes any token it is handed.
VerifyIdTokenAny(tok) == tok # ""

VerifyIdTokenOk(tok) == tok \in ValidTokens

UserIdInputs == {Undef, Str("")} \cup {Str(u) : u \in Users}
\* Values of points other than 1, and values of level other than 500: points
\* 1 and level 500 are what the variants of the other fields come with.
PointsInputs == {Undef, Num(0 - 1, 0), Num(0, 0), Num(1, 5),
                 Num(MAX_POINTS_PER_CALL, 0), Num(MAX_POINTS_PER_CALL + 1, 0), Str("7")}
LevelInputs == {Undef, Num(0, 0), Num(3, 5), Num(0 - 1, 0),
                Num(MAX_LEVEL_ALLOWED + 1, 0), Str("abc")}

Body(u, p, l) == [userId |-> u, points |-> p, level |-> l]
NoBody == Body(Undef, Undef, Undef)

\* Request bodies: each field ranges over its inputs beside well-formed others.
Bodies(uid) ==
  {Body(u, Num(1, 0), Undef) : u \in UserIdInputs}
    \cup {Body(Str(uid), p, Num(MAX_LEVEL_ALLOWED, 0)) : p \in PointsInputs}
    \cup {Body(Str(uid), Num(1, 0), l) : l \in LevelInputs}

\* applyAdReward reads userId alone.
AdBodies == {Body(u, Undef, Undef) : u \in UserIdInputs}

(* ------------------------------- state --------------------------------- *)
VARIABLES
  now,      \* the wall clock, in ticks
  docs,     \* users/{uid}: the balance records
  acts,     \* users/{uid}/activities: the audit records
  pc,       \* where each request's handler stands
  loc,      \* the handler's local variables
  res,      \* the response object of each request
  running,  \* the request whose handler is returning, or 0
  hist,     \* how each request's transaction and re-read ended
  adKeys    \* per user, the day-keys applyAdReward opened transactions with

vars == <<now, docs, acts, pc, loc, res, running, hist, adKeys>>

NoKey == 0 - 1

\* `${getUTCFullYear()}-${getUTCMonth()+1}-${getUTCDate()}`: one key per UTC day.
DayKey(t) == t \div TicksPerDay

NoDoc == [exists |-> FALSE, points |-> 0, lastAdShown |-> NoKey, ver |-> 0]
NoLoc == [endpoint |-> None, auth |-> NoHeader, uid |-> None, body |-> NoBody,
          userRef |-> None, dayKey |-> NoKey, snap |-> NoDoc, writes |-> FALSE,
          attempt |-> 0]
NoRes == [sent |-> FALSE, status |-> 0, ok |-> FALSE, error |-> "", added |-> 0,
          points |-> 0, sends |-> 0, escaped |-> FALSE]
NoHist == [outcome |-> None, reread |-> None]

\* What an earlier applyAdReward of user u1, on the day of tick 0, left.
EarlierDoc == [exists |-> TRUE, points |-> AD_REWARD, lastAdShown |-> DayKey(0), ver |-> 1]
EarlierAct ==
  [by |-> 0, kind |-> "ad", amount |-> AD_REWARD, level |-> Str(""), key |-> DayKey(0)]

\* The store is empty, or holds what one earlier ad reward of u1 left.
Init ==
  /\ now = 0
  /\ \E earlier \in BOOLEAN :
       /\ docs = [u \in Users |-> IF earlier /\ u = "u1" THEN EarlierDoc ELSE NoDoc]
       /\ acts = [u \in Users |-> IF earlier /\ u = "u1" THEN {EarlierAct} ELSE {}]
  /\ adKeys = [u \in Users |-> {}]
  /\ pc = [r \in Reqs |-> "idle"]
  /\ loc = [r \in Reqs |-> NoLoc]
  /\ res = [r \in Reqs |-> NoRes]
  /\ running = 0
  /\ hist = [r \in Reqs |-> NoHist]

(* ----------------------------- responses ------------------------------- *)
Json(status, ok, error, added, points) ==
  [status |-> status, ok |-> ok, error |-> error, added |-> added, points |-> points]

\* res.status(s).json(b): the first call sends; a later one throws
\* ERR_HTTP_HEADERS_SENT and changes nothing the caller sees.
Respond(x, j) ==
  IF x.sent THEN [x EXCEPT !.sends = @ + 1]
  ELSE [x EXCEPT !.sent = TRUE, !.status = j.status, !.ok = j.ok, !.error = j.error,
                 !.added = j.added, !.points = j.points, !.sends = @ + 1]

\* A catch block that logs the error and sends nothing.
CatchSilent(x) == x

\* The catch block of a handler: res.status(500).json(server_error); when a
\* response was sent already this throws again and the rejection escapes.
Catch(x) ==
  IF x.sent THEN [x EXCEPT !.sends = @ + 1, !.escaped = TRUE]
  ELSE Respond(x, Json(500, FALSE, "server_error", 0, 0))

(* ----------------------------- validation ------------------------------ *)
Accepted == Json(0, TRUE, "", 0, 0)

\* The check without its comparison against the token's subject.
UserIdMissing(uid, body) == ~Truthy(body.userId)

\* !userId || userId !== uid
UserIdMismatch(uid, body) == ~Truthy(body.userId) \/ body.userId # Str(uid)

\* The check without its sign test.
InvalidPointsNonInteger(points) == ~NumberIsInteger(points)

\* !Number.isInteger(points) || points <= 0
InvalidPoints(points) == ~NumberIsInteger(points) \/ LessOrEqual(points, 0)

\* A cap that rejects nothing.
PointsTooLargeNever(points) == FALSE

\* points > MAX_POINTS_PER_CALL
PointsTooLarge(points) == GreaterThan(points, MAX_POINTS_PER_CALL)

\* level && (isNaN(level) || level < 0 || level > MAX_LEVEL_ALLOWED)
InvalidLevel(level) ==
  Truthy(level) /\ (IsNaN(level) \/ LessThan(level, 0) \/ GreaterThan(level, MAX_LEVEL_ALLOWED))

\* The checks of applyAdReward between the token and the transaction.
ValidateAd(uid, body) ==
  IF UserIdMismatch(uid, body) THEN Json(400, FALSE, "userId mismatch", 0, 0)
  ELSE Accepted

\* The checks of awardGamePoints between the token and the transaction.
ValidateGame(uid, body) ==
  IF UserIdMismatch(uid, body) THEN Json(400, FALSE, "userId mismatch", 0, 0)
  ELSE IF InvalidPoints(body.points) THEN Json(400, FALSE, "invalid points", 0, 0)
  ELSE IF PointsTooLarge(body.points) THEN Json(400, FALSE, "points_too_large", 0, 0)
  ELSE IF InvalidLevel(body.level) THEN Json(400, FALSE, "invalid level", 0, 0)
  ELSE Accepted

\* The ad handler's `added: 100` in both handlers.
IncrementAdReward(endpoint, body) == AD_REWARD

\* The increment a request asks for: 100, or the validated points.
Increment(endpoint, body) ==
  IF endpoint = "applyAdReward" THEN AD_REWARD ELSE body.points.whole

(* ------------------------------ the clock ------------------------------ *)
\* new Date() reads the wall clock: it has moved on by any amount since it
\* was last read.
ClockRead == \E t \in now..MaxTick : now' = t

(* ------------------------------ handlers ------------------------------- *)
\* A request arrives and its handler runs up to the call of verifyIdToken.
\* Requests are numbered in the order they arrive.
Receive(r) ==
  /\ running = 0
  /\ pc[r] = "idle"
  /\ \A q \in Reqs : q < r => pc[q] # "idle"
  /\ \E ep \in {"applyAdReward", "awardGamePoints"}, hdr \in AuthHeaders :
       /\ loc' = [loc EXCEPT ![r] = [NoLoc EXCEPT !.endpoint = ep, !.auth = hdr]]
       /\ IF ~StartsWithBearer(hdr)
          THEN /\ res' = [res EXCEPT ![r] = Respond(@, Json(401, FALSE,
                            "Missing or invalid Authorization header", 0, 0))]
               /\ pc' = [pc EXCEPT ![r] = "return"]
               /\ running' = r
          ELSE /\ pc' = [pc EXCEPT ![r] = "verifyIdToken"]
               /\ UNCHANGED <<res, running>>
  /\ UNCHANGED <<now, docs, acts, hist, adKeys>>

\* verifyIdToken settles; on success the handler reads the body, validates
\* it and calls db.runTransaction, all in one synchronous run.
VerifyReturn(r) ==
  /\ running = 0
  /\ pc[r] = "verifyIdToken"
  /\ IF ~VerifyIdTokenOk(IdToken(loc[r].auth))
     THEN /\ res' = [res EXCEPT ![r] = Respond(@, Json(401, FALSE, "Invalid ID token", 0, 0))]
          /\ pc' = [pc EXCEPT ![r] = "return"]
          /\ running' = r
          /\ UNCHANGED <<now, loc, hist, adKeys>>
     ELSE LET uid == TokenSubject[IdToken(loc[r].auth)]
              ep == loc[r].endpoint
          IN \E body \in IF ep = "applyAdReward" THEN AdBodies ELSE Bodies(uid) :
               LET verdict == IF ep = "applyAdReward" THEN ValidateAd(uid, body)
                              ELSE ValidateGame(uid, body)
               IN IF verdict # Accepted
                  THEN /\ res' = [res EXCEPT ![r] = Respond(@, verdict)]
                       /\ loc' = [loc EXCEPT ![r].uid = uid,
                                             ![r].body = body]
                       /\ pc' = [pc EXCEPT ![r] = "return"]
                       /\ running' = r
                       /\ UNCHANGED <<now, hist, adKeys>>
                  ELSE /\ IF ep = "applyAdReward" THEN ClockRead ELSE UNCHANGED now
                       /\ adKeys' = IF ep = "applyAdReward"
                                    THEN [adKeys EXCEPT ![uid] = @ \cup {DayKey(now')}]
                                    ELSE adKeys
                       /\ loc' = [loc EXCEPT ![r].uid = uid,
                                             ![r].body = body,
                                             ![r].userRef = uid,
                                             ![r].dayKey = IF ep = "applyAdReward"
                                                           THEN DayKey(now') ELSE NoKey,
                                             ![r].attempt = 1]
                       /\ pc' = [pc EXCEPT ![r] = "txGet"]
                       /\ UNCHANGED <<res, running, hist>>
  /\ UNCHANGED <<docs, acts>>

\* The handler returns: the request is over, its locals and its response
\* object go out of scope.
Return(r) ==
  /\ running = r
  /\ pc[r] = "return"
  /\ pc' = [pc EXCEPT ![r] = "done"]
  /\ loc' = [loc EXCEPT ![r] = NoLoc]
  /\ res' = [res EXCEPT ![r] = NoRes]
  /\ hist' = [hist EXCEPT ![r] = NoHist]
  /\ running' = 0
  /\ UNCHANGED <<now, docs, acts, adKeys>>

(* ------------------------------ the store ------------------------------ *)
\* A write of the constant 100 in place of FieldValue.increment(100).
AdWriteSet(d, dayKey) ==
  [d EXCEPT !.exists = TRUE, !.points = AD_REWARD, !.lastAdShown = dayKey,
            !.ver = @ + 1]

\* tx.set(userRef, {points: increment(100), lastAdShown: dayKey}, {merge: true})
AdWrite(d, dayKey) ==
  [d EXCEPT !.exists = TRUE, !.points = @ + AD_REWARD, !.lastAdShown = dayKey,
            !.ver = @ + 1]

\* A tx.set without {merge: true}: the fields it does not name are dropped.
GameWriteNoMerge(d, points) ==
  [d EXCEPT !.exists = TRUE, !.points = @ + points, !.lastAdShown = NoKey,
            !.ver = @ + 1]

\* A write that stores the points instead of adding them.
GameWriteOverwrite(d, points) ==
  [d EXCEPT !.exists = TRUE, !.points = points, !.ver = @ + 1]

\* tx.set(..., {merge: true}) on a missing record, tx.update on an existing one:
\* both add to points and leave the other fields alone.
GameWrite(d, points) ==
  [d EXCEPT !.exists = TRUE, !.points = @ + points, !.ver = @ + 1]

\* level || "?"
LevelText(level) == IF Truthy(level) THEN level ELSE Str("?")

\* The activity record of each endpoint, by the parts of its text: `by`
\* stands for the generated id of userRef.collection("activities").doc(),
\* `key` notes the day-key the same transaction stores in lastAdShown.
AdActivity(r, dayKey) ==
  [by |-> r, kind |-> "ad", amount |-> AD_REWARD, level |-> Str(""), key |-> dayKey]

GameActivity(r, body) ==
  [by |-> r, kind |-> "game", amount |-> body.points.whole,
   level |-> LevelText(body.level), key |-> NoKey]

\* The record and the activity log after the writes of request r commit.
DocAfter(r) ==
  IF loc[r].endpoint = "applyAdReward"
  THEN AdWrite(docs[loc[r].userRef], loc[r].dayKey)
  ELSE GameWrite(docs[loc[r].userRef], loc[r].body.points.whole)

\* A commit that leaves the activity log as it was.
ActsAfterNoRecord(r) == acts[loc[r].userRef]

ActsAfter(r) ==
  acts[loc[r].userRef] \cup
    {IF loc[r].endpoint = "applyAdReward" THEN AdActivity(r, loc[r].dayKey)
     ELSE GameActivity(r, loc[r].body)}

\* A commit that never notices a concurrent write.
UnchangedAlways(d, snap) == TRUE

\* The commit's check: the record was not written since the callback read it.
Unchanged(d, snap) == d.ver = snap.ver

\* A callback that never finds the day claimed.
AlreadyClaimedNever(data, dayKey) == FALSE

\* Already claimed today?
AlreadyClaimed(data, dayKey) == data.lastAdShown = dayKey

\* The store runs the transaction callback: tx.get, then the callback's
\* synchronous rest, which buffers its writes or answers "Already claimed".
TxGet(r) ==
  /\ running = 0
  /\ pc[r] = "txGet"
  /\ LET snap == docs[loc[r].userRef]
         claimed == /\ loc[r].endpoint = "applyAdReward"
                    /\ AlreadyClaimed(snap, loc[r].dayKey)
         j == Json(200, FALSE, "Already claimed today", 0, 0)
     IN IF claimed /\ res[r].sent
        THEN \* the send throws inside the callback: the transaction rejects
             /\ res' = [res EXCEPT ![r] = Catch(Respond(@, j))]
             /\ hist' = [hist EXCEPT ![r].outcome = "failed"]
             /\ pc' = [pc EXCEPT ![r] = "return"]
             /\ running' = r
             /\ UNCHANGED loc
        ELSE /\ res' = [res EXCEPT ![r] = IF claimed THEN Respond(@, j) ELSE @]
             /\ loc' = [loc EXCEPT ![r].snap = snap, ![r].writes = ~claimed]
             /\ pc' = [pc EXCEPT ![r] = "txCommit"]
             /\ UNCHANGED <<hist, running>>
  /\ UNCHANGED <<now, docs, acts, adKeys>>

\* The store commits: the writes apply when the record is as it was read;
\* otherwise the callback runs again, up to MaxAttempts times in all.
TxCommit(r) ==
  /\ running = 0
  /\ pc[r] = "txCommit"
  /\ LET u == loc[r].userRef
     IN IF ~loc[r].writes
        THEN /\ hist' = [hist EXCEPT ![r].outcome = "noop"]
             /\ pc' = [pc EXCEPT ![r] = "refetch"]
             /\ UNCHANGED <<now, docs, acts, loc, res, running>>
        ELSE IF Unchanged(docs[u], loc[r].snap)
        THEN /\ docs' = [docs EXCEPT ![u] = DocAfter(r)]
             /\ acts' = [acts EXCEPT ![u] = ActsAfter(r)]
             /\ hist' = [hist EXCEPT ![r].outcome = "committed"]
             /\ pc' = [pc EXCEPT ![r] = "refetch"]
             /\ UNCHANGED <<now, loc, res, running>>
        ELSE IF loc[r].attempt < MaxAttempts
        THEN /\ loc' = [loc EXCEPT ![r].attempt = @ + 1]
             /\ pc' = [pc EXCEPT ![r] = "txGet"]
             /\ UNCHANGED <<now, docs, acts, res, hist, running>>
        ELSE /\ res' = [res EXCEPT ![r] = Catch(@)]
             /\ hist' = [hist EXCEPT ![r].outcome = "aborted"]
             /\ pc' = [pc EXCEPT ![r] = "return"]
             /\ running' = r
             /\ UNCHANGED <<now, docs, acts, loc>>
  /\ UNCHANGED adKeys

\* The transaction fails for a reason other than contention: nothing is
\* written and the handler's catch block answers.
TxFault(r) ==
  /\ running = 0
  /\ pc[r] \in {"txGet", "txCommit"}
  /\ res' = [res EXCEPT ![r] = Catch(@)]
  /\ hist' = [hist EXCEPT ![r].outcome = "failed"]
  /\ pc' = [pc EXCEPT ![r] = "return"]
  /\ running' = r
  /\ UNCHANGED <<now, docs, acts, loc, adKeys>>

\* The conditional with its branches exchanged.
NewPointsInverted(fresh) == IF fresh.exists THEN 0 ELSE fresh.points

\* fresh.exists ? (fresh.data().points || 0) : 0
NewPoints(fresh) == IF fresh.exists THEN fresh.points ELSE 0

\* userRef.get() after the transaction, and the ok:true response.
Refetch(r) ==
  /\ running = 0
  /\ pc[r] = "refetch"
  /\ LET j == Json(200, TRUE, "", Increment(loc[r].endpoint, loc[r].body),
                   NewPoints(docs[loc[r].userRef]))
     IN res' = [res EXCEPT ![r] = IF @.sent THEN Catch(Respond(@, j)) ELSE Respond(@, j)]
  /\ hist' = [hist EXCEPT ![r].reread = "ok"]
  /\ pc' = [pc EXCEPT ![r] = "return"]
  /\ running' = r
  /\ UNCHANGED <<now, docs, acts, loc, adKeys>>

\* userRef.get() after the transaction throws: the catch block answers.
RefetchFault(r) ==
  /\ running = 0
  /\ pc[r] = "refetch"
  /\ res' = [res EXCEPT ![r] = Catch(@)]
  /\ hist' = [hist EXCEPT ![r].reread = "failed"]
  /\ pc' = [pc EXCEPT ![r] = "return"]
  /\ running' = r
  /\ UNCHANGED <<now, docs, acts, loc, adKeys>>

Next ==
  \/ \E r \in Reqs : Receive(r)
  \/ \E r \in Reqs : VerifyReturn(r)
  \/ \E r \in Reqs : Return(r)
  \/ \E r \in Reqs : TxGet(r)
  \/ \E r \in Reqs : TxCommit(r)
  \/ \E r \in Reqs : TxFault(r)
  \/ \E r \in Reqs : Refetch(r)
  \/ \E r \in Reqs : RefetchFault(r)

Spec == Init /\ [][Next]_vars

\* A step of the handler of r after its arrival: a call it awaits (the token
\* verification, the transaction's read or commit, the re-read) returns or
\* fails, or the handler returns.
Step(r) ==
  \/ VerifyReturn(r)
  \/ TxGet(r) \/ TxCommit(r) \/ TxFault(r)
  \/ Refetch(r) \/ RefetchFault(r)
  \/ Return(r)

\* Every awaited call eventually returns or fails, and a handler that can
\* return does; whether further requests arrive is left open.
LiveSpec == Spec /\ \A r \in Reqs : WF_vars(Step(r))

(* ---------------------------- derived views ---------------------------- *)
Ad == "applyAdReward"
Game == "awardGamePoints"

\* The ad-reward records of a user, and the records a request wrote.
AdRecords(u) == {a \in acts[u] : a.kind = "ad"}
RecordsBy(r) == UNION {{a \in acts[u] : a.by = r} : u \in Users}

RECURSIVE SumAmounts(_)
SumAmounts(S) ==
  IF S = {} THEN 0
  ELSE LET a == CHOOSE x \in S : TRUE IN a.amount + SumAmounts(S \ {a})

\* The handler of r is past the transaction's commit, or just returned.
Finishing(r) == pc[r] \in {"refetch", "return"}

\* The transaction of r ran to its end (committed its writes or had none).
TxCompleted(r) == hist[r].outcome \in {"noop", "committed"}

(* ------------------------------- claims -------------------------------- *)

\* C1: when all applyAdReward requests for a user carry the same day-key,
\* however they interleave, read, conflict and retry, at most one award is
\* committed for that key and the balance is what it was before, plus the
\* game points, plus 100 for that award; whenever one of the requests is
\* through its transaction, exactly one award for that key exists.
C1_OneAwardPerBatch ==
  \A u \in Users : \A k \in adKeys[u] :
    adKeys[u] = {k} =>
      LET new == {a \in AdRecords(u) : a.by \in Reqs}
          forKey == {a \in AdRecords(u) : a.key = k}
      IN /\ Cardinality(forKey) <= 1
         /\ Cardinality(new) <= 1
         /\ docs[u].points = SumAmounts(acts[u] \ new) + AD_REWARD * Cardinality(new)
         /\ \A r \in Reqs :
              (Finishing(r) /\ loc[r].endpoint = Ad /\ loc[r].userRef = u /\ TxCompleted(r))
                => /\ Cardinality(forKey) = 1
                   /\ docs[u].lastAdShown = k

\* Two applyAdReward requests with one day-key are both through their
\* transactions, one of them after a conflict and a retry.
C1_Witness ==
  \E r, q \in Reqs :
    /\ r # q
    /\ Finishing(r) /\ pc[q] = "refetch"
    /\ loc[r].endpoint = Ad /\ loc[q].endpoint = Ad
    /\ loc[r].userRef = loc[q].userRef
    /\ loc[r].dayKey = loc[q].dayKey
    /\ hist[r].outcome = "committed" /\ hist[q].outcome = "noop"
    /\ loc[q].attempt = 2
    /\ docs[loc[r].userRef].points = AD_REWARD

\* C2: for each user and each UTC day, at most one ad award is committed
\* for that day (under that day's key).
C2_OncePerDay ==
  \A u \in Users : \A a, b \in AdRecords(u) : a.key = b.key => a = b

\* C3: for each user the audit records are as many as the committed
\* increments of the balance record, and they add up to the balance.
C3_AuditPairsIncrement ==
  \A u \in Users :
    /\ Cardinality(acts[u]) = docs[u].ver
    /\ SumAmounts(acts[u]) = docs[u].points
    /\ \A r \in Reqs : Cardinality(RecordsBy(r)) <= 1
    /\ \A r \in Reqs : Finishing(r) =>
         (hist[r].outcome = "committed" <=> Cardinality(RecordsBy(r)) = 1)

\* A user has two audit records, the second committed after a conflict and
\* a retry of its transaction.
C3_Witness ==
  \E u \in Users :
    /\ Cardinality(acts[u]) = 2
    /\ docs[u].ver = 2
    /\ \E r \in Reqs :
         /\ Finishing(r) /\ loc[r].userRef = u
         /\ loc[r].attempt = 2 /\ hist[r].outcome = "committed"

\* C4: an applyAdReward whose transaction committed has written exactly one
\* ad record of 100 under its day-key, and its caller gets 200 with ok:true,
\* added:100 and a total that includes the award.
C4_FirstCallAwards ==
  \A r \in Reqs :
    (pc[r] = "return" /\ loc[r].endpoint = Ad /\ hist[r].outcome = "committed")
      => /\ loc[r].snap.lastAdShown # loc[r].dayKey
         /\ \E a \in acts[loc[r].uid] :
              /\ RecordsBy(r) = {a}
              /\ a.kind = "ad" /\ a.amount = AD_REWARD /\ a.key = loc[r].dayKey
         /\ res[r].sent /\ res[r].status = 200 /\ res[r].ok
         /\ res[r].added = AD_REWARD
         /\ res[r].points >= AD_REWARD

PointsInRange(p) ==
  p.t = "number" /\ p.tenths = 0 /\ p.whole >= 1 /\ p.whole <= MAX_POINTS_PER_CALL
LevelInRange(l) ==
  l.t = "number" /\ l.tenths = 0 /\ l.whole >= 0 /\ l.whole <= MAX_LEVEL_ALLOWED

\* C6: the commit of an awardGamePoints transaction with points in 1..1000
\* and level in 0..500 or absent adds exactly `points` to the stored total (a
\* missing record ends with total = points) and adds exactly one audit
\* record, of that amount.
C6_GameAwardAddsPoints ==
  [][ \A r \in Reqs :
        ( /\ loc[r].endpoint = Game
          /\ hist[r].outcome # "committed" /\ hist'[r].outcome = "committed"
          /\ PointsInRange(loc[r].body.points)
          /\ loc[r].body.level = Undef \/ LevelInRange(loc[r].body.level) )
          => LET u == loc[r].uid
                 p == loc[r].body.points.whole
             IN /\ docs'[u].points = docs[u].points + p
                /\ ~docs[u].exists => docs'[u].points = p
                /\ docs'[u].lastAdShown = docs[u].lastAdShown
                /\ acts[u] \subseteq acts'[u]
                /\ Cardinality(acts'[u]) = Cardinality(acts[u]) + 1
                /\ \A a \in acts'[u] \ acts[u] :
                     a.by = r /\ a.kind = "game" /\ a.amount = p
     ]_vars

\* A game award of 1000 points committed on a record that held 100 points.
C6_Witness ==
  \E r \in Reqs :
    /\ pc[r] = "refetch" /\ loc[r].endpoint = Game
    /\ hist[r].outcome = "committed"
    /\ loc[r].body.points = Num(MAX_POINTS_PER_CALL, 0)
    /\ docs[loc[r].uid].points = AD_REWARD + MAX_POINTS_PER_CALL
    /\ Cardinality(acts[loc[r].uid]) = 2

\* The points C7 speaks of: not an integer, <= 0, or > 1000.
PointsOutOfRange(p) ==
  p.t # "number" \/ p.tenths # 0 \/ p.whole <= 0 \/ p.whole > MAX_POINTS_PER_CALL

\* C7: an awardGamePoints call of an authenticated caller with matching
\* userId and points out of range is answered 400 by the handler, which
\* returns without a transaction and without a write.
C7_BadPointsRejected ==
  \A r \in Reqs :
    ( /\ loc[r].endpoint = Game
      /\ loc[r].uid # None
      /\ loc[r].body.userId = Str(loc[r].uid)
      /\ PointsOutOfRange(loc[r].body.points) )
      => /\ pc[r] = "return"
         /\ res[r].sent /\ res[r].status = 400 /\ ~res[r].ok
         /\ res[r].error \in {"invalid points", "points_too_large"}
         /\ loc[r].attempt = 0
         /\ hist[r] = NoHist
         /\ RecordsBy(r) = {}

\* A call with points 1001 was answered 400 points_too_large.
C7_Witness ==
  \E r \in Reqs :
    /\ pc[r] = "return" /\ loc[r].endpoint = Game
    /\ loc[r].body.points = Num(MAX_POINTS_PER_CALL + 1, 0)
    /\ res[r].status = 400 /\ res[r].error = "points_too_large"
    /\ loc[r].attempt = 0

\* C8: with everything else valid, a provided level that is no integer in
\* 0..500 is answered 400 before any transaction, and a provided level that
\* is an integer in 0..500 is accepted.
C8_LevelValidation ==
  \A r \in Reqs :
    ( /\ loc[r].endpoint = Game
      /\ loc[r].uid # None
      /\ loc[r].body.userId = Str(loc[r].uid)
      /\ PointsInRange(loc[r].body.points)
      /\ loc[r].body.level # Undef )
      => IF LevelInRange(loc[r].body.level)
         THEN loc[r].attempt >= 1
         ELSE /\ pc[r] = "return"
              /\ res[r].status = 400
              /\ loc[r].attempt = 0

\* C9: a call whose token subject differs from the body's userId (missing
\* and empty included) is answered 400 "userId mismatch" without a
\* transaction or a write; a transaction only ever addresses the record of
\* the token's subject, and the record of a user without a token never changes.
C9_UserIdMismatchRejected ==
  /\ \A r \in Reqs :
       (loc[r].uid # None /\ loc[r].body.userId # Str(loc[r].uid))
         => /\ pc[r] = "return"
            /\ res[r].sent /\ res[r].status = 400 /\ ~res[r].ok
            /\ res[r].error = "userId mismatch"
            /\ loc[r].attempt = 0
            /\ hist[r] = NoHist
            /\ RecordsBy(r) = {}
  /\ \A r \in Reqs : loc[r].userRef \in {None, loc[r].uid}
  /\ \A r \in Reqs : loc[r].uid \in Callers \cup {None}
  /\ \A u \in Users \ Callers : docs[u] = NoDoc /\ acts[u] = {}

\* An applyAdReward call of u1 naming u2 was answered 400 "userId mismatch".
C9_Witness ==
  \E r \in Reqs :
    /\ pc[r] = "return" /\ loc[r].endpoint = Ad
    /\ loc[r].uid = "u1" /\ loc[r].body.userId = Str("u2")
    /\ res[r].status = 400 /\ res[r].error = "userId mismatch"

\* The headers C10 speaks of.
BadAuthorization(hdr) == hdr.scheme # "Bearer " \/ hdr.token \notin ValidTokens

\* C10: a request without a Bearer header never reaches verifyIdToken, and
\* one with a token that fails verification goes no further: each is answered
\* 401 ok:false exactly once and its handler returns without a subject, a
\* transaction or a write.
C10_UnauthorizedStops ==
  \A r \in Reqs :
    (pc[r] \notin {"idle", "done"} /\ BadAuthorization(loc[r].auth))
      => /\ loc[r].uid = None
         /\ loc[r].attempt = 0
         /\ hist[r] = NoHist
         /\ RecordsBy(r) = {}
         /\ IF pc[r] = "verifyIdToken"
            THEN loc[r].auth.scheme = "Bearer " /\ ~res[r].sent
            ELSE /\ pc[r] = "return"
                 /\ res[r].sent /\ res[r].status = 401 /\ ~res[r].ok
                 /\ res[r].sends = 1 /\ ~res[r].escaped

\* A request with a forged token was answered 401 "Invalid ID token".
C10_Witness ==
  \E r \in Reqs :
    /\ pc[r] = "return"
    /\ loc[r].auth = Bearer(Forged)
    /\ res[r].status = 401 /\ res[r].error = "Invalid ID token"
    /\ res[r].sends = 1

\* C11: every user's point total is a non-negative integer in every
\* reachable state, and no step of any request, whether it succeeds, is
\* rejected or fails, makes a total smaller.
C11_TotalNeverDecreases ==
  /\ [](\A u \in Users : docs[u].points \in Nat)
  /\ [][\A u \in Users : docs'[u].points >= docs[u].points]_vars

\* A game award and an earlier ad reward made the total 101, and a later
\* request of the same user failed in its transaction.
C11_Witness ==
  \E r \in Reqs :
    /\ pc[r] = "return"
    /\ hist[r].outcome = "failed"
    /\ res[r].status = 500
    /\ docs[loc[r].userRef].points = AD_REWARD + 1
    /\ Cardinality(acts[loc[r].userRef]) = 2

\* C12: every request gets exactly one response: a handler never calls a send
\* after a response was sent, no exception escapes its catch block, and a
\* handler that returns has sent its one response.
C12_ExactlyOneResponse ==
  \A r \in Reqs :
    /\ res[r].sends <= 1
    /\ ~res[r].escaped
    /\ pc[r] = "return" => res[r].sent /\ res[r].sends = 1

\* C13: when the transaction of a request has committed and the re-read of
\* the balance fails, the committed record stays in the store and the caller
\* is still told ok:true with the increment, not an error.
C13_RereadFailureStillOk ==
  \A r \in Reqs :
    (pc[r] = "return" /\ hist[r].outcome = "committed" /\ hist[r].reread = "failed")
      => /\ Cardinality(RecordsBy(r)) = 1
         /\ res[r].sent /\ res[r].ok
         /\ res[r].status = 200
         /\ res[r].added = Increment(loc[r].endpoint, loc[r].body)

\* C14: a request whose transaction failed (retries exhausted, or any other
\* error of the transaction) is answered 500 server_error and has left no
\* record in the store; a request whose transaction committed after a retry
\* is not answered with an error on account of the contention.
C14_TxFailureIsServerError ==
  \A r \in Reqs :
    /\ (pc[r] = "return" /\ hist[r].outcome \in {"aborted", "failed"})
         => /\ res[r].sent /\ res[r].status = 500 /\ ~res[r].ok
            /\ res[r].error = "server_error"
            /\ RecordsBy(r) = {}
    /\ (pc[r] = "return" /\ hist[r].outcome = "committed"
          /\ loc[r].attempt >= 2 /\ hist[r].reread = "ok")
         => res[r].ok /\ res[r].status = 200

\* C15: the step that commits an awardGamePoints transaction changes the
\* total and the log of its user and nothing else of the store: the stored
\* day-key stays, so game awards never re-enable the ad reward; the step that
\* commits an applyAdReward changes the total, the day-key and the log of its
\* user and nothing else; no other step writes to the store, and no step
\* changes or removes an activity record.
C15_Frame ==
  [][ /\ \A u \in Users : acts[u] \subseteq acts'[u]
      /\ \A r \in Reqs :
           (hist[r].outcome # "committed" /\ hist'[r].outcome = "committed")
             => LET u == loc[r].userRef
                IN /\ \A v \in Users \ {u} : docs'[v] = docs[v] /\ acts'[v] = acts[v]
                   /\ docs'[u].exists
                   /\ IF loc[r].endpoint = Game
                      THEN docs'[u].lastAdShown = docs[u].lastAdShown
                      ELSE docs'[u].lastAdShown = loc[r].dayKey
      /\ (\A r \in Reqs : hist'[r].outcome = "committed" => hist[r].outcome = "committed")
           => docs' = docs /\ acts' = acts
    ]_vars

\* An applyAdReward was answered "Already claimed today" although a game
\* award was committed to the record after the day's ad reward.
C15_Witness ==
  \E r \in Reqs :
    /\ pc[r] = "return" /\ loc[r].endpoint = Ad
    /\ res[r].error = "Already claimed today"
    /\ loc[r].snap.points > AD_REWARD
    /\ docs[loc[r].uid].lastAdShown = loc[r].dayKey
    /\ \E a \in acts[loc[r].uid] : a.kind = "game"

\* The total a user had before any of the requests, by the records of then.
InitialTotal(u) == SumAmounts({a \in acts[u] : a.by \notin Reqs})

\* The increment the committed transaction of request r applied, 0 if none.
Applied(u, r) == SumAmounts({a \in acts[u] : a.by = r})

RECURSIVE SumApplied(_, _)
SumApplied(u, R) ==
  IF R = {} THEN 0
  ELSE LET r == CHOOSE x \in R : TRUE IN Applied(u, r) + SumApplied(u, R \ {r})

\* C16: in every reachable state, and so once all requests have finished, a
\* user's total is the initial total plus the increments of exactly the
\* transactions that committed, each applied once: 100 for an ad reward,
\* `points` for a game award, whatever the conflicts and retries.
C16_NoLostUpdates ==
  \A u \in Users :
    /\ docs[u].points = InitialTotal(u) + SumApplied(u, Reqs)
    /\ \A r \in Reqs :
         /\ Cardinality({a \in acts[u] : a.by = r}) <= 1
         /\ (Finishing(r) /\ loc[r].userRef = u)
              => Applied(u, r) = IF hist[r].outcome = "committed"
                                 THEN Increment(loc[r].endpoint, loc[r].body)
                                 ELSE 0

\* Two concurrent game awards for one user, of 1000 and of 1 point, on a
\* record that held 100: the second to commit did so on its retry, the
\* other has finished, and the total is 1101.
C16_Witness ==
  \E r \in Reqs :
    /\ pc[r] = "return"
    /\ hist[r].outcome = "committed"
    /\ loc[r].attempt = 2
    /\ \A q \in Reqs \ {r} : pc[q] = "done"
    /\ docs[loc[r].userRef].points = AD_REWARD + MAX_POINTS_PER_CALL + 1
    /\ Cardinality(acts[loc[r].userRef]) = 3

\* C17: when the response a caller received (the first one sent) says
\* ok:true with added:X, the transaction of that request committed, once, an
\* increment of X with one audit record; when it says ok:false with status
\* 200, 400 or 401, the request committed nothing and has no audit record.
C17_ResponseSound ==
  \A r \in Reqs :
    res[r].sent =>
      /\ res[r].ok =>
           /\ res[r].status = 200
           /\ hist[r].outcome = "committed"
           /\ \E a \in acts[loc[r].userRef] :
                /\ RecordsBy(r) = {a}
                /\ a.amount = res[r].added
                /\ a.kind = IF loc[r].endpoint = Ad THEN "ad" ELSE "game"
           /\ loc[r].endpoint = Ad => res[r].added = AD_REWARD
           /\ loc[r].endpoint = Game => Num(res[r].added, 0) = loc[r].body.points
      /\ (~res[r].ok /\ res[r].status \in {200, 400, 401}) =>
           /\ hist[r].outcome # "committed"
           /\ RecordsBy(r) = {}

\* A caller was told {ok:true, added:1000} and the request's one record is
\* a game award of 1000.
C17_Witness ==
  \E r \in Reqs :
    /\ pc[r] = "return" /\ loc[r].endpoint = Game
    /\ res[r].ok /\ res[r].added = MAX_POINTS_PER_CALL
    /\ \E a \in RecordsBy(r) : a.amount = MAX_POINTS_PER_CALL /\ a.kind = "game"

\* The total right after the commit of request r: the commit applies the
\* increment to the record as the callback read it.
PostCommitTotal(r) == loc[r].snap.points + Increment(loc[r].endpoint, loc[r].body)

\* C18: the step that commits the transaction of r leaves the total at
\* PostCommitTotal(r), and the points of a delivered ok:true response are a
\* total of the store read at or after that commit: never less than
\* PostCommitTotal(r), hence never less than `added`, and equal to the
\* stored total when the handler returns.
C18_ReportedPointsFresh ==
  /\ [][\A r \in Reqs :
          (hist[r].outcome # "committed" /\ hist'[r].outcome = "committed")
            => docs'[loc[r].userRef].points = PostCommitTotal(r)]_vars
  /\ [](\A r \in Reqs :
          (res[r].sent /\ res[r].ok)
            => /\ res[r].points >= PostCommitTotal(r)
               /\ res[r].points >= res[r].added
               /\ res[r].points = docs[loc[r].userRef].points)

\* A response reports more than the total right after its own commit:
\* another request of the user committed before the re-read.
C18_Witness ==
  \E r \in Reqs :
    /\ pc[r] = "return"
    /\ res[r].ok
    /\ res[r].points > PostCommitTotal(r)
    /\ \E q \in Reqs \ {r} : hist[q].outcome = "committed" /\ loc[q].userRef = loc[r].userRef

\* C19: when every awaited call eventually returns or fails and the store
\* retries a transaction at most MaxAttempts times, every request that has
\* arrived eventually stands at its handler's return with a response sent,
\* whatever the other requests do.
C19_EveryRequestAnswered ==
  \A r \in Reqs :
    (pc[r] \notin {"idle", "done"}) ~> (pc[r] = "return" /\ res[r].sent)

\* A request lost the commit race, ran its callback again and now stands at
\* its return with a response sent, while another request is still in flight.
C19_Witness ==
  \E r \in Reqs :
    /\ pc[r] = "return" /\ res[r].sent
    /\ loc[r].attempt = MaxAttempts
    /\ \E q \in Reqs \ {r} : pc[q] \in {"verifyIdToken", "txGet", "txCommit", "refetch"}

====
